---- MODULE Spec2Model ----
(***************************************************************************)
(* A model of the FuzzySum subset-sum engine (SubsetSum/fuzzy_sum.py) and  *)
(* of its batch layer (SubsetSum/parallel_solver.py).                      *)
(*                                                                         *)
(* Numbers.  Values, targets, totals and errors are Python floats.  The    *)
(* model keeps every such quantity as an integer count of HALVES (3 is     *)
(* 1.5, 16 is 8.0): halves and their sums are exact in binary floating     *)
(* point, so the arithmetic of the model is the arithmetic of the code.    *)
(* Scaled quantities (round(v * scale_factor)) are plain integers.         *)
(*                                                                         *)
(* Optional fields (None or a value) are sets of at most one element:      *)
(* {} is None, {x} is x.                                                   *)
(***************************************************************************)
EXTENDS Integers, Sequences, FiniteSets, TLC

VARIABLES
    \* ---- one call of SubsetSumSolver.solve -------------------------------
    values,        \* the value list (halves)
    target,        \* the target (halves)
    mode,          \* SolveMode
    strategy,      \* SolverStrategy
    constraints,   \* SolverConstraints or NoConstraints
    scale_factor,  \* SubsetSumSolver.scale_factor
    has_ortools,   \* the module flag HAS_ORTOOLS
    pc,            \* "idle", "call" before solve has run, "returned" or "raised" after
    outcome,       \* what solve produced
    \* ---- one call of ParallelSolver.solve_batch --------------------------
    tasks,         \* the submitted BatchTasks, in submission order
    config,        \* ParallelConfig: use_processes, enable_caching, timeout
    callback,      \* progress_callback: "none", "returns" or "raises" (it may raise)
    task_pc,       \* per task: where its worker is ("submitted", "solving", "storing", "done")
    future,        \* per task: what its worker produced (its future's outcome once done)
    yielded,       \* the futures as_completed has yielded so far
    results,       \* the results list
    calls,         \* the arguments of the progress_callback invocations so far
    memory_cache,  \* ResultCache.memory_cache: key -> SolverResult
    batch_pc,      \* "idle", "collecting", "returned" or "raised"
    earlier,       \* the calls of solve_batch this ParallelSolver has finished:
                   \* for each its tasks, what their workers produced, how it ended
    \* ---- a ResultCache on its own ----------------------------------------
    result_cache,  \* the ResultCache: cache_dir, max_size, memory_cache, access_times,
                   \* and files, the *.pkl files of cache_dir
    clock,         \* the latest reading of time.time()
    recent,        \* the keys accessed (memory hit or insertion), least recent first
    cache_op,      \* the call of get, put or clear made last, and the cache before it
    worker         \* per worker thread of the shared pool: its task and where it is

solveVars == <<values, target, mode, strategy, constraints, scale_factor, pc, outcome>>
batchVars == <<tasks, config, callback, task_pc, future, yielded, results, calls,
               memory_cache, batch_pc, earlier>>
cacheVars == <<result_cache, clock, recent, cache_op, worker>>
vars == <<solveVars, has_ortools, batchVars, cacheVars>>

----------------------------------------------------------------------------
(* Numbers and sequences *)

None == {}
Some(x) == {x}
IsSet(opt) == opt # {}
Get(opt) == CHOOSE x \in opt : TRUE

\* A whole number n as a count of halves.
Whole(n) == 2 * n

Abs(x) == IF x < 0 THEN -x ELSE x

\* Python's round(num / den) for den > 0: round half to even.
PyRound(num, den) ==
    LET q == num \div den
        r == num % den
    IN  IF 2 * r < den THEN q
        ELSE IF 2 * r > den THEN q + 1
        ELSE IF q % 2 = 0 THEN q ELSE q + 1

\* int(round(v * scale_factor)) of a quantity v kept in halves.
Scaled(v, sf) == PyRound(v * sf, 2)

RECURSIVE SumSeq(_)
SumSeq(s) == IF s = <<>> THEN 0 ELSE s[1] + SumSeq(Tail(s))

RECURSIVE SumAbs(_)
SumAbs(s) == IF s = <<>> THEN 0 ELSE Abs(s[1]) + SumAbs(Tail(s))

Range(s) == {s[k] : k \in 1..Len(s)}

Reverse(s) == [k \in 1..Len(s) |-> s[Len(s) + 1 - k]]

\* Python lists are indexed from 0: At(s, i) is s[i].
At(s, i) == s[i + 1]

----------------------------------------------------------------------------
(* The data model *)

Modes == {"closest", "le", "ge", "exact", "range"}
Strategies == {"ortools", "dynamic", "greedy", "hybrid"}

\* SolverConstraints(...): every field optional.
Constraints(mn, mx, lo, hi, req, forb, tol) ==
    [present |-> TRUE, min_items |-> mn, max_items |-> mx, min_value |-> lo,
     max_value |-> hi, required_indices |-> req, forbidden_indices |-> forb,
     tolerance |-> tol]

\* constraints=None
NoConstraints ==
    [present |-> FALSE, min_items |-> None, max_items |-> None, min_value |-> None,
     max_value |-> None, required_indices |-> None, forbidden_indices |-> None,
     tolerance |-> None]

\* Python truthiness of an Optional[int]: set and not 0.
Truthy(opt) == IsSet(opt) /\ Get(opt) # 0

\* Python truthiness of an Optional[Set[int]]: set and not empty.
TruthySet(opt) == IsSet(opt) /\ Get(opt) # {}

\* A SolverResult (solve_time, a wall-clock reading, and iterations, always 0,
\* are left out).
Result(ok, idx, vals, total, tgt, err, strat, md, status, msg) ==
    [success |-> ok, selected_indices |-> idx, selected_values |-> vals,
     total_sum |-> total, target |-> tgt, error |-> err, strategy_used |-> strat,
     mode_used |-> md, solver_status |-> status, message |-> msg]

\* The unsuccessful result every strategy builds the same way.
Failed(tgt, strat, md, status, msg) ==
    Result(FALSE, <<>>, <<>>, 0, tgt, Abs(tgt), strat, md, status, msg)

\* The successful result every strategy builds the same way: the selected
\* positions of vs, their values, sum(selected_values) and abs(target - total).
Succeeded(vs, idx, tgt, strat, md, status) ==
    LET sel == [k \in 1..Len(idx) |-> At(vs, idx[k])]
        total == SumSeq(sel)
    IN  Result(TRUE, idx, sel, total, tgt, Abs(tgt - total), strat, md, status, "")

\* What a call produces: a returned SolverResult, or a raised exception.
Returned(r) == [raised |-> FALSE, error |-> "", result |-> r]
Raised(e) == [raised |-> TRUE, error |-> e, result |-> Failed(0, "", "", "", "")]

----------------------------------------------------------------------------
(* SubsetSumSolver._filter_values *)

\* float('nan'), float('inf') and float('-inf'): values the filter drops before
\* any arithmetic is done on them, kept here as three numbers no finite value
\* of the model comes near.
NaN == 3000000
PosInf == 2000000
NegInf == -2000000

\* "isinstance(value, (int, float))" holds of every value of the model; this is
\* "not (np.isnan(value) or np.isinf(value))".
IsFinite(v) == v \notin {NaN, PosInf, NegInf}

\* A filter that lets forbidden positions through (what the filter is not).
KeepsForbidden(vs, c, i) ==
    /\ IsFinite(At(vs, i))
    /\ \/ ~c.present
       \/ /\ ~(IsSet(c.min_value) /\ At(vs, i) < Get(c.min_value))
          /\ ~(IsSet(c.max_value) /\ At(vs, i) > Get(c.max_value))

\* Whether position i (0-based) of vs survives the filter.
Keeps(vs, c, i) ==
    /\ IsFinite(At(vs, i))
    /\ \/ ~c.present
       \/ /\ ~(IsSet(c.min_value) /\ At(vs, i) < Get(c.min_value))
          /\ ~(IsSet(c.max_value) /\ At(vs, i) > Get(c.max_value))
          /\ ~(TruthySet(c.forbidden_indices) /\ i \in Get(c.forbidden_indices))

\* valid_indices: the surviving original positions, ascending.
RECURSIVE ValidFrom(_, _, _)
ValidFrom(vs, c, i) ==
    IF i >= Len(vs) THEN <<>>
    ELSE (IF Keeps(vs, c, i) THEN <<i>> ELSE <<>>) \o ValidFrom(vs, c, i + 1)

ValidIndices(vs, c) == ValidFrom(vs, c, 0)

\* filtered_values: parallel to valid_indices.
FilteredValues(vs, c) ==
    LET vi == ValidIndices(vs, c) IN [k \in 1..Len(vi) |-> At(vs, vi[k])]

----------------------------------------------------------------------------
(* SubsetSumSolver._solve_greedy *)

\* n // 4 floored at 1: the divisor of avg_target = target / max(1, len(values) // 4).
AvgDivisor(n) == IF n \div 4 > 1 THEN n \div 4 ELSE 1

\* The sort key abs(v - avg_target), times the divisor (which is positive, so
\* the order of the keys is kept and the comparison stays in integers).
ProximityKey(v, tgt, n) == Abs(v * AvgDivisor(n) - tgt)

\* Whether position i comes before position j in indexed_values after the sort.
\* LE: list.sort(reverse=True) on (value, index) tuples. Other modes: a stable
\* sort by the proximity key, so ties stay in index order.
SortsBefore(vs, tgt, md, i, j) ==
    IF md = "le"
    THEN At(vs, i) > At(vs, j) \/ (At(vs, i) = At(vs, j) /\ i > j)
    ELSE LET ki == ProximityKey(At(vs, i), tgt, Len(vs))
             kj == ProximityKey(At(vs, j), tgt, Len(vs))
         IN  ki < kj \/ (ki = kj /\ i < j)

\* The positions of vs in the order the scan visits them.
GreedyOrder(vs, tgt, md) ==
    LET I == 0..(Len(vs) - 1)
    IN  [k \in 1..Len(vs) |->
            CHOOSE i \in I :
                Cardinality({j \in I : SortsBefore(vs, tgt, md, j, i)}) = k - 1]

\* One iteration of the scan loop on the item at position idx. st is the loop
\* state: the selected positions, the running sum, and whether a break was taken.
GreedyVisit(st, vs, tgt, md, c, idx) ==
    LET value == At(vs, idx)
        new_sum == st.sum + value
        taken == [sel |-> Append(st.sel, idx), sum |-> new_sum, stop |-> FALSE]
        after == IF md = "closest"
                 THEN (IF Abs(new_sum - tgt) < Abs(st.sum - tgt) THEN taken ELSE st)
                 ELSE taken
    IN  IF c.present /\ Truthy(c.max_items) /\ Len(st.sel) >= Get(c.max_items)
            THEN [st EXCEPT !.stop = TRUE]
        ELSE IF c.present /\ TruthySet(c.forbidden_indices)
                /\ idx \in Get(c.forbidden_indices)
            THEN st
        ELSE IF md = "le" /\ new_sum > tgt THEN st
        ELSE IF md = "ge" /\ st.sum >= tgt THEN [st EXCEPT !.stop = TRUE]
        ELSE IF md = "exact" /\ new_sum > tgt THEN st
        ELSE IF md = "exact" /\ after.sum = tgt THEN [after EXCEPT !.stop = TRUE]
        ELSE after

RECURSIVE GreedyScan(_, _, _, _, _, _, _)
GreedyScan(st, order, k, vs, tgt, md, c) ==
    IF k > Len(order) \/ st.stop THEN st
    ELSE GreedyScan(GreedyVisit(st, vs, tgt, md, c, order[k]), order, k + 1,
                    vs, tgt, md, c)

\* The candidate selection the scan ends with.
GreedySelection(vs, tgt, md, c) ==
    GreedyScan([sel |-> <<>>, sum |-> 0, stop |-> FALSE],
               GreedyOrder(vs, tgt, md), 1, vs, tgt, md, c).sel

\* A minimum-items check that also rejects a selection of exactly min_items
\* items (what the check is not).
GreedyMinItemsNotExceeded(c, sel) ==
    c.present /\ Truthy(c.min_items) /\ Len(sel) <= Get(c.min_items)

\* The minimum-items check made after the scan.
GreedyMinItemsUnmet(c, sel) ==
    c.present /\ Truthy(c.min_items) /\ Len(sel) < Get(c.min_items)

SolveGreedy(vs, tgt, md, c) ==
    LET sel == GreedySelection(vs, tgt, md, c)
    IN  IF GreedyMinItemsUnmet(c, sel)
        THEN Failed(tgt, "greedy", md, "CONSTRAINT_VIOLATION",
                    "Cannot satisfy minimum items constraint")
        ELSE Succeeded(vs, sel, tgt, "greedy", md, "FEASIBLE")


----------------------------------------------------------------------------
(* SubsetSumSolver._solve_dynamic.  dp is a Python dict whose values are all
   True; the model keeps its keys, <<items, current_sum>>, as a sequence in
   insertion order (the order dict iteration follows).  parent is a function
   from keys to <<prev_items, prev_sum, item_idx>>. *)

ScaledValues(vs, sf) == [k \in 1..Len(vs) |-> Scaled(vs[k], sf)]

\* Which states of dp the forward pass extends when it processes item i.
DpExtends(key, i) == key[1] = i

\* "Check constraints" of the forward pass: the new state's item count is allowed.
DpMaxItemsOk(c, new_items) ==
    ~(c.present /\ Truthy(c.max_items) /\ new_items > Get(c.max_items))

\* The forward pass's bound on the distance of a new state from the target.
DpWithinBound(new_sum, st, max_sum) == Abs(new_sum - st) <= max_sum

\* The inner loop "for (items, current_sum), possible in dp.items()" at
\* position k of dp's keys; tbl is [keys |-> new_dp's keys, parent |-> parent].
RECURSIVE DpInner(_, _, _, _, _, _, _, _)
DpInner(tbl, dpKeys, k, i, sv, st, max_sum, c) ==
    IF k > Len(dpKeys) THEN tbl
    ELSE LET key == dpKeys[k]
             new_sum == key[2] + At(sv, i)
             new_items == key[1] + 1
             nk == <<new_items, new_sum>>
             add == /\ DpExtends(key, i)
                    /\ DpMaxItemsOk(c, new_items)
                    /\ DpWithinBound(new_sum, st, max_sum)
                    /\ nk \notin Range(tbl.keys)
             next == IF add
                     THEN [keys |-> Append(tbl.keys, nk),
                           parent |-> (nk :> <<key[1], key[2], i>>) @@ tbl.parent]
                     ELSE tbl
         IN  DpInner(next, dpKeys, k + 1, i, sv, st, max_sum, c)

\* The outer loop "for i in range(n)".
RECURSIVE DpForward(_, _, _, _, _, _)
DpForward(tbl, i, sv, st, max_sum, c) ==
    IF i >= Len(sv) THEN tbl
    ELSE DpForward(DpInner(tbl, tbl.keys, 1, i, sv, st, max_sum, c),
                   i + 1, sv, st, max_sum, c)

DpTable(sv, st, c) ==
    DpForward([keys |-> << <<0, 0>> >>, parent |-> << >>], 0, sv, st, SumAbs(sv), c)

\* A best-solution filter without the minimum-items test (what the filter is
\* not).
DpCandidateAnyCount(key, st, md, c) ==
    /\ ~(c.present /\ Truthy(c.max_items) /\ key[1] > Get(c.max_items))
    /\ ~(md = "le" /\ key[2] > st)
    /\ ~(md = "ge" /\ key[2] < st)
    /\ ~(md = "exact" /\ key[2] # st)

\* "Find best solution": whether a state may be chosen at all.
DpCandidate(key, st, md, c) ==
    /\ ~(c.present /\ Truthy(c.min_items) /\ key[1] < Get(c.min_items))
    /\ ~(c.present /\ Truthy(c.max_items) /\ key[1] > Get(c.max_items))
    /\ ~(md = "le" /\ key[2] > st)
    /\ ~(md = "ge" /\ key[2] < st)
    /\ ~(md = "exact" /\ key[2] # st)

\* best_key: the first candidate, in dict order, of least error; None when
\* there is no candidate.
DpBestKey(keys, st, md, c) ==
    LET cand == {k \in 1..Len(keys) : DpCandidate(keys[k], st, md, c)}
        err(k) == Abs(keys[k][2] - st)
        best == {k \in cand : \A j \in cand : err(k) < err(j) \/ (err(k) = err(j) /\ k <= j)}
    IN  {keys[k] : k \in best}

\* "Reconstruct solution": the item indices met following parent from key,
\* last item first.
RECURSIVE DpBacktrack(_, _)
DpBacktrack(parent, key) ==
    IF key \in DOMAIN parent
    THEN <<parent[key][3]>> \o DpBacktrack(parent, <<parent[key][1], parent[key][2]>>)
    ELSE <<>>

\* A reconstruction that keeps the indices in the order the back-pointers give
\* them, last item first (what the reconstruction is not).
SolveDynamicUnreversed(vs, tgt, md, c, sf) ==
    LET sv == ScaledValues(vs, sf)
        st == Scaled(tgt, sf)
        tbl == DpTable(sv, st, c)
        best == DpBestKey(tbl.keys, st, md, c)
    IN  IF best = None
        THEN Failed(tgt, "dynamic", md, "NO_SOLUTION",
                    "No valid solution found with dynamic programming")
        ELSE Succeeded(vs, DpBacktrack(tbl.parent, Get(best)),
                       tgt, "dynamic", md, "OPTIMAL")

SolveDynamic(vs, tgt, md, c, sf) ==
    LET sv == ScaledValues(vs, sf)
        st == Scaled(tgt, sf)
        tbl == DpTable(sv, st, c)
        best == DpBestKey(tbl.keys, st, md, c)
    IN  IF best = None
        THEN Failed(tgt, "dynamic", md, "NO_SOLUTION",
                    "No valid solution found with dynamic programming")
        ELSE Succeeded(vs, Reverse(DpBacktrack(tbl.parent, Get(best))),
                       tgt, "dynamic", md, "OPTIMAL")


----------------------------------------------------------------------------
(* SubsetSumSolver._solve_ortools.  The CP-SAT solver is a collaborator: the
   model keeps the constraints the code posts and lets the solver answer with
   any assignment that satisfies them (OPTIMAL for a best one, FEASIBLE for
   any, as under a time limit), INFEASIBLE when there is none, or UNKNOWN when
   the time limit ends the search first. *)

RECURSIVE SumOver(_, _)
SumOver(sv, S) ==
    IF S = {} THEN 0
    ELSE LET i == CHOOSE i \in S : TRUE IN At(sv, i) + SumOver(sv, S \ {i})

\* The positions of a set, ascending: [i for i in range(n) if solver.Value(x[i]) == 1].
RECURSIVE Ascending(_)
Ascending(S) ==
    IF S = {} THEN <<>>
    ELSE LET i == CHOOSE i \in S : \A j \in S : i <= j IN <<i>> \o Ascending(S \ {i})

\* The hard constraints _solve_ortools adds to the CP model, on the set S of
\* positions whose x[i] is 1.
OrtoolsPosted(S, sv, st, md, c) ==
    /\ c.present /\ IsSet(c.min_items) => Cardinality(S) >= Get(c.min_items)
    /\ c.present /\ IsSet(c.max_items) => Cardinality(S) <= Get(c.max_items)
    /\ c.present /\ TruthySet(c.required_indices) =>
           \A idx \in Get(c.required_indices) : (0 <= idx /\ idx < Len(sv)) => idx \in S
    /\ md = "closest" => Abs(SumOver(sv, S) - st) <= SumAbs(sv)
    /\ md = "le" => SumOver(sv, S) <= st
    /\ md = "ge" => SumOver(sv, S) >= st
    /\ md = "exact" => SumOver(sv, S) = st

\* The objective the code asks the solver to minimise (0: none).
OrtoolsObjective(S, sv, st, md) ==
    CASE md = "closest" -> Abs(SumOver(sv, S) - st)
      [] md = "le" -> -SumOver(sv, S)
      [] md = "ge" -> SumOver(sv, S)
      [] OTHER -> 0

\* The answers solver.Solve may give: <<status name, S>>.
CpSatAnswers(sv, st, md, c) ==
    LET F == {S \in SUBSET (0..(Len(sv) - 1)) : OrtoolsPosted(S, sv, st, md, c)}
        opt == {S \in F : \A T \in F :
                    OrtoolsObjective(S, sv, st, md) <= OrtoolsObjective(T, sv, st, md)}
    IN  {<<"OPTIMAL", S>> : S \in opt} \cup {<<"FEASIBLE", S>> : S \in F}
        \cup (IF F = {} THEN {<<"INFEASIBLE", {}>>} ELSE {})
        \cup {<<"UNKNOWN", {}>>}

\* The outcomes of _solve_ortools.  In RANGE mode the code multiplies a
\* tolerance of None by the scale factor (TypeError) or, with a tolerance,
\* reads abs_diff, which only the CLOSEST branch binds (UnboundLocalError).
SolveOrtools(vs, tgt, md, c, sf) ==
    LET sv == ScaledValues(vs, sf)
        st == Scaled(tgt, sf)
    IN  IF md = "range"
        THEN (IF c.present /\ ~IsSet(c.tolerance)
              THEN {Raised("TypeError")} ELSE {Raised("UnboundLocalError")})
        ELSE {IF a[1] \in {"OPTIMAL", "FEASIBLE"}
              THEN Returned(Succeeded(vs, Ascending(a[2]), tgt, "ortools", md, a[1]))
              ELSE Returned(Failed(tgt, "ortools", md, a[1], "OR-Tools solver failed"))
              : a \in CpSatAnswers(sv, st, md, c)}

----------------------------------------------------------------------------
(* SubsetSumSolver._solve_hybrid *)

\* The size thresholds of the strategy list.
HybridOrtoolsMax == 1000
HybridDynamicMax == 500

\* The strategies tried, in order, "" standing for one left out.
HybridStrategies(n, has) ==
    <<IF has /\ n <= HybridOrtoolsMax THEN "ortools" ELSE "",
      IF n <= HybridDynamicMax THEN "dynamic" ELSE "",
      "greedy">>

\* "if result.error < 1e-10": errors are counts of halves.
HybridExactMatch(r) == r.error = 0

\* A loop body that keeps the latest successful result whatever its error (what
\* the loop body is not).
HybridKeepLatest(h, r) ==
    IF ~r.success THEN h
    ELSE [best |-> Some([r EXCEPT !.strategy_used = "hybrid"]),
          stop |-> HybridExactMatch(r)]

\* One pass of the loop body on a strategy's result; h is [best |-> optional
\* result, stop |-> whether break was taken].
HybridKeep(h, r) ==
    IF ~r.success THEN h
    ELSE [best |-> IF h.best = None \/ r.error < Get(h.best).error
                   THEN Some([r EXCEPT !.strategy_used = "hybrid"])
                   ELSE h.best,
          stop |-> HybridExactMatch(r)]

RECURSIVE HybridLoop(_, _, _)
HybridLoop(h, rs, k) ==
    IF k > Len(rs) \/ h.stop THEN h
    ELSE HybridLoop(HybridKeep(h, rs[k]), rs, k + 1)

\* The result of the loop over the results rs of the strategies tried.
HybridResult(rs, tgt, md) ==
    LET h == HybridLoop([best |-> None, stop |-> FALSE], rs, 1)
    IN  IF h.best = None
        THEN Failed(tgt, "hybrid", md, "ALL_STRATEGIES_FAILED",
                    "All strategies failed to find a solution")
        ELSE Get(h.best)

SolveHybrid(vs, tgt, md, c, sf, has) ==
    LET strategies == HybridStrategies(Len(vs), has)
        dyn == IF strategies[2] = "dynamic" THEN <<SolveDynamic(vs, tgt, md, c, sf)>>
               ELSE <<>>
        rest == dyn \o <<SolveGreedy(vs, tgt, md, c)>>
    IN  IF strategies[1] = "ortools"
        THEN {IF o.raised THEN o
              ELSE Returned(HybridResult(<<o.result>> \o rest, tgt, md))
              : o \in SolveOrtools(vs, tgt, md, c, sf)}
        ELSE {Returned(HybridResult(rest, tgt, md))}

----------------------------------------------------------------------------
(* SubsetSumSolver.solve *)

\* "Choose and execute strategy": the outcomes of the strategy chosen.
Dispatch(fv, tgt, md, strat, c, sf, has) ==
    IF strat = "ortools" /\ has THEN SolveOrtools(fv, tgt, md, c, sf)
    ELSE IF strat = "dynamic" THEN {Returned(SolveDynamic(fv, tgt, md, c, sf))}
    ELSE IF strat = "greedy" THEN {Returned(SolveGreedy(fv, tgt, md, c))}
    ELSE IF strat = "hybrid" THEN SolveHybrid(fv, tgt, md, c, sf, has)
    ELSE IF has THEN SolveOrtools(fv, tgt, md, c, sf)
    ELSE {Returned(SolveDynamic(fv, tgt, md, c, sf))}

\* A mapping back that reads the values at the filtered-domain positions (what
\* the mapping is not).
RemapValuesUnmapped(r, vs, valid_indices) ==
    IF r.success
    THEN [r EXCEPT !.selected_indices =
                       [k \in 1..Len(r.selected_indices) |->
                           At(valid_indices, r.selected_indices[k])],
                   !.selected_values =
                       [k \in 1..Len(r.selected_indices) |->
                           At(vs, r.selected_indices[k])]]
    ELSE r

\* "Map back to original indices".
Remap(r, vs, valid_indices) ==
    IF r.success
    THEN LET original_indices ==
                 [k \in 1..Len(r.selected_indices) |-> At(valid_indices, r.selected_indices[k])]
         IN  [r EXCEPT !.selected_indices = original_indices,
                       !.selected_values =
                           [k \in 1..Len(original_indices) |-> At(vs, original_indices[k])]]
    ELSE r

\* A solve without the "if not filtered_values" return (what solve is not).
SolveOutcomesUnguarded(vs, tgt, md, strat, c, sf, has) ==
    LET valid_indices == ValidIndices(vs, c)
        fv == FilteredValues(vs, c)
    IN  IF vs = <<>>
        THEN {Returned(Failed(tgt, strat, md, "EMPTY_INPUT", "No values provided"))}
        ELSE {IF o.raised THEN o ELSE Returned(Remap(o.result, vs, valid_indices))
              : o \in Dispatch(fv, tgt, md, strat, c, sf, has)}

\* Every outcome solve may produce.
SolveOutcomes(vs, tgt, md, strat, c, sf, has) ==
    LET valid_indices == ValidIndices(vs, c)
        fv == FilteredValues(vs, c)
    IN  IF vs = <<>>
        THEN {Returned(Failed(tgt, strat, md, "EMPTY_INPUT", "No values provided"))}
        ELSE IF fv = <<>>
        THEN {Returned(Failed(tgt, strat, md, "NO_VALID_VALUES",
                              "No valid values after filtering"))}
        ELSE {IF o.raised THEN o ELSE Returned(Remap(o.result, vs, valid_indices))
              : o \in Dispatch(fv, tgt, md, strat, c, sf, has)}


----------------------------------------------------------------------------
(* fuzzy_sum.solve_subset_sum: the convenience wrapper the batch layer calls *)

\* The call a worker makes for a task: every constraint keyword is passed,
\* None included, so set(kwargs['required_indices']) and
\* set(kwargs['forbidden_indices']) raise TypeError on None.  Otherwise a
\* SolverConstraints is built from the keywords and solve is called with it.
SolveSubsetSum(t, has) ==
    IF ~IsSet(t.constraints.required_indices) \/ ~IsSet(t.constraints.forbidden_indices)
    THEN {Raised("TypeError")}
    ELSE SolveOutcomes(t.values, t.target, t.mode, t.strategy,
                       [t.constraints EXCEPT !.present = TRUE], t.scale_factor, has)

----------------------------------------------------------------------------
(* parallel_solver: BatchTask, BatchResult, ResultCache *)

BatchTask(id, vs, tgt, md, strat, c, sf, tl) ==
    [task_id |-> id, values |-> vs, target |-> tgt, mode |-> md, strategy |-> strat,
     constraints |-> c, scale_factor |-> sf, time_limit |-> tl]

BatchResult(id, tgt, r, hit) ==
    [task_id |-> id, target |-> tgt, result |-> r, cache_hit |-> hit]

\* sorted(values)
SortedValues(vs) ==
    LET before(i, j) == vs[i] < vs[j] \/ (vs[i] = vs[j] /\ i < j)
    IN  [k \in 1..Len(vs) |->
            vs[CHOOSE i \in 1..Len(vs) :
                   Cardinality({j \in 1..Len(vs) : before(j, i)}) = k - 1]]

\* "tuple(sorted(x)) if x else None": an unset and an empty set read alike.
KeySet(opt) == IF TruthySet(opt) THEN opt ELSE None

\* ResultCache._generate_key.  The digests (md5 of the sorted values, sha256 of
\* the pickled key data) are taken to be free of collisions: the key is the
\* data that is hashed.
GenerateKey(t) ==
    [values_hash |-> SortedValues(t.values), target |-> t.target, mode |-> t.mode,
     strategy |-> t.strategy, scale_factor |-> t.scale_factor,
     time_limit |-> t.time_limit,
     constraints |->
         IF t.constraints.present
         THEN Some([t.constraints EXCEPT !.required_indices = KeySet(@),
                                         !.forbidden_indices = KeySet(@)])
         ELSE None]

\* Whether the workers of this batch use the ParallelSolver's cache:
\* _solve_single_task does when self.cache exists, _solve_task_worker never.
UsesCache(cfg) == ~cfg.use_processes /\ cfg.enable_caching

\* ResultCache.get on the memory tier (no cache_dir is configured).
CacheGet(cache, t) ==
    IF GenerateKey(t) \in DOMAIN cache THEN Some(cache[GenerateKey(t)]) ELSE None

\* ResultCache.put / _add_to_memory_cache.  The ParallelSolver's cache has
\* max_size 1000, which no batch of the model fills, so nothing is evicted.
CachePut(cache, t, r) ==
    [k \in DOMAIN cache \cup {GenerateKey(t)} |->
        IF k = GenerateKey(t) THEN r ELSE cache[k]]

\* A failed result that drops the captured error text (what the collecting
\* loop does not build).
TaskFailedNoMessage(t, e) ==
    BatchResult(t.task_id, t.target,
                Failed(t.target, t.strategy, t.mode, "TASK_FAILED", ""), FALSE)

\* The failed result the collecting loop builds for a future that raised.
TaskFailed(t, e) ==
    BatchResult(t.task_id, t.target,
                Failed(t.target, t.strategy, t.mode, "TASK_FAILED", e), FALSE)

\* results.sort(key=lambda x: x.task_id): stable, ascending.
SortByTaskId(rs) ==
    LET before(i, j) ==
            rs[i].task_id < rs[j].task_id \/ (rs[i].task_id = rs[j].task_id /\ i < j)
    IN  [k \in 1..Len(rs) |->
            rs[CHOOSE i \in 1..Len(rs) :
                   Cardinality({j \in 1..Len(rs) : before(j, i)}) = k - 1]]


----------------------------------------------------------------------------
(* parallel_solver.ResultCache as an object of its own: the memory tier with
   its access times and eviction loop, and the file tier of cache_dir.
   memory_cache, access_times and files are functions from keys.  time.time()
   is read at every access; at least the hashing of a key lies between two
   readings, and they are taken to increase strictly.  File operations are
   taken to succeed. *)

\* del d[k], for a key that is present, and d[k] = v.
Without(f, k) == [x \in DOMAIN f \ {k} |-> f[x]]
With(f, k, v) == [x \in DOMAIN f \cup {k} |-> IF x = k THEN v ELSE f[x]]

\* ResultCache.__init__
ResultCache(dir, size) ==
    [cache_dir |-> dir, max_size |-> size, memory_cache |-> << >>,
     access_times |-> << >>, files |-> << >>]

\* The key with the largest access time (what oldest_key is not).
NewestKey(at) == CHOOSE k \in DOMAIN at : \A j \in DOMAIN at : at[k] >= at[j]

\* min(self.access_times.keys(), key=self.access_times.get), on access times
\* that are not empty; no two keys hold the same reading.
OldestKey(at) == CHOOSE k \in DOMAIN at : \A j \in DOMAIN at : at[k] <= at[j]

\* The loop "while len(self.memory_cache) >= self.max_size" of
\* _add_to_memory_cache; s is [cache, evicted, error], error naming the
\* exception that ended the loop: min() of an empty sequence raises ValueError,
\* del of a key that is absent KeyError.
RECURSIVE EvictWhileFull(_)
EvictWhileFull(s) ==
    IF s.error # "" \/ Cardinality(DOMAIN s.cache.memory_cache) < s.cache.max_size
    THEN s
    ELSE IF DOMAIN s.cache.access_times = {} THEN [s EXCEPT !.error = "ValueError"]
    ELSE LET oldest_key == OldestKey(s.cache.access_times)
         IN  IF oldest_key \notin DOMAIN s.cache.memory_cache
             THEN [s EXCEPT !.error = "KeyError"]
             ELSE EvictWhileFull(
                      [cache |-> [s.cache EXCEPT
                                     !.memory_cache = Without(@, oldest_key),
                                     !.access_times = Without(@, oldest_key)],
                       evicted |-> Append(s.evicted, oldest_key),
                       error |-> ""])

\* ResultCache._add_to_memory_cache, reading the clock as now.
AddToMemoryCache(c, key, result, now) ==
    LET s == EvictWhileFull([cache |-> c, evicted |-> << >>, error |-> ""])
    IN  IF s.error # "" THEN s
        ELSE [s EXCEPT !.cache.memory_cache = With(@, key, result),
                       !.cache.access_times = With(@, key, now)]

\* What a call on the cache did: the cache after it, what it returned (None
\* for nothing), the keys it evicted, whether it inserted key into, or found
\* it in, the memory tier, and the exception that left it ("" for none).
CacheStep(c, returned, evicted, inserted, hit, error) ==
    [cache |-> c, returned |-> returned, evicted |-> evicted, inserted |-> inserted,
     hit |-> hit, error |-> error]

\* ResultCache.get for a key.  An exception raised while a file is loaded and
\* added to the memory tier is caught and logged, and get returns None.
ResultCacheGet(c, key, now) ==
    IF key \in DOMAIN c.memory_cache
    THEN CacheStep([c EXCEPT !.access_times = With(@, key, now)],
                   Some(c.memory_cache[key]), << >>, FALSE, TRUE, "")
    ELSE IF IsSet(c.cache_dir) /\ key \in DOMAIN c.files
    THEN LET s == AddToMemoryCache(c, key, c.files[key], now)
         IN  IF s.error # ""
             THEN CacheStep(s.cache, None, s.evicted, FALSE, FALSE, "")
             ELSE CacheStep(s.cache, Some(c.files[key]), s.evicted, TRUE, FALSE, "")
    ELSE CacheStep(c, None, << >>, FALSE, FALSE, "")

\* ResultCache.put for a key.
ResultCachePut(c, key, result, now) ==
    LET s == AddToMemoryCache(c, key, result, now)
    IN  IF s.error # "" THEN CacheStep(s.cache, None, s.evicted, FALSE, FALSE, s.error)
        ELSE CacheStep(IF IsSet(c.cache_dir)
                       THEN [s.cache EXCEPT !.files = With(@, key, result)]
                       ELSE s.cache,
                       None, s.evicted, TRUE, FALSE, "")

\* ResultCache.clear
ResultCacheClear(c) ==
    CacheStep([c EXCEPT !.memory_cache = << >>, !.access_times = << >>,
                        !.files = IF IsSet(c.cache_dir) THEN << >> ELSE @],
              None, << >>, FALSE, FALSE, "")

\* The order of the accesses after an access to key.
Touch(order, key) == Append(SelectSeq(order, LAMBDA k : k # key), key)

\* Of the keys held, the one whose most recent access is the oldest (None when
\* none is held).
LeastRecent(order, held) ==
    LET at == {i \in DOMAIN order : order[i] \in held}
    IN  IF at = {} THEN None ELSE Some(order[CHOOSE i \in at : \A j \in at : i <= j])

\* The record of a call on the cache.
CacheOp(op, key, step, before, lru) ==
    [op |-> op, key |-> key, returned |-> step.returned, evicted |-> step.evicted,
     inserted |-> step.inserted, hit |-> step.hit, error |-> step.error,
     before |-> before, lru |-> lru]

NoCacheOp ==
    CacheOp("none", None, CacheStep(ResultCache(None, 1), None, << >>, FALSE, FALSE, ""),
            ResultCache(None, 1), None)


----------------------------------------------------------------------------
(* Bounds and inputs *)

\* The longest value list of a solve call drawn freely.
MaxLen == 3
\* The most tasks in a batch.
MaxTasks == 2
\* The most calls of solve_batch on one ParallelSolver.
MaxCalls == 2
\* The largest max_size of a ResultCache (1000 in ParallelSolver.__init__).
MaxCacheSize == 2
\* The most readings of the clock in the life of a ResultCache.
MaxClock == 5
\* The worker threads of the shared pool.
NumWorkers == 3

\* Values and targets, in halves: -1.0, 1.0, 2.5 and -1.0, 2.0, 4.0.
Vals == {-2, 2, 5}
Targets == {-2, 4, 8}
ScaleFactors == {1, 100}

ValueLists == UNION {[1..n -> Vals] : n \in 0..MaxLen}

\* Lists that hold values that are not finite.
NonFiniteLists == {<<NaN>>, <<PosInf, NegInf>>, <<NaN, 2>>, <<2, PosInf, 5>>}

\* The constraint sets a solve call is drawn with.
ConstraintChoices ==
    { NoConstraints,
      Constraints(None, None, None, None, None, None, None),
      Constraints(Some(2), None, None, None, None, None, None),
      Constraints(None, Some(1), None, None, None, None, None),
      Constraints(Some(0), Some(0), None, None, None, None, None),
      Constraints(Some(1), Some(2), None, None, None, None, None),
      Constraints(None, None, Some(2), None, None, None, None),
      Constraints(None, None, None, Some(2), None, None, Some(1)),
      Constraints(None, None, None, None, Some({0}), None, None),
      Constraints(None, None, None, None, Some({0}), Some({0}), None),
      Constraints(None, None, None, None, Some({}), Some({1}), None) }

\* Scenario A of the specification: values 1..5 and target 8, in halves.
ScenarioAValues == <<Whole(1), Whole(2), Whole(3), Whole(4), Whole(5)>>
ScenarioATarget == Whole(8)

\* Scenario B: no values, target 100.
ScenarioBTarget == Whole(100)

\* Scenario C: values 10, 20, 30, target 50, min_items 5.
ScenarioCValues == <<Whole(10), Whole(20), Whole(30)>>
ScenarioCTarget == Whole(50)
ScenarioCConstraints == Constraints(Some(5), None, None, None, None, None, None)

\* Scenario D: the values of Scenario A and target 7.5.
ScenarioDTarget == Whole(7) + 1

\* The calls of solve the model makes: every combination of the sets above,
\* and the scenarios.
SolveInputs ==
    [values : ValueLists, target : Targets, mode : Modes, strategy : Strategies,
     constraints : ConstraintChoices, scale_factor : ScaleFactors]
    \cup
    [values : {ScenarioAValues}, target : {ScenarioATarget}, mode : {"exact"},
     strategy : Strategies,
     constraints : {NoConstraints, Constraints(None, None, None, None, None, None, None)},
     scale_factor : {100}]
    \cup
    [values : NonFiniteLists, target : Targets, mode : Modes, strategy : Strategies,
     constraints : ConstraintChoices, scale_factor : {100}]
    \cup
    [values : {<<>>}, target : {ScenarioBTarget}, mode : Modes, strategy : Strategies,
     constraints : {NoConstraints}, scale_factor : {100}]
    \cup
    [values : {ScenarioCValues}, target : {ScenarioCTarget}, mode : Modes,
     strategy : Strategies, constraints : {ScenarioCConstraints}, scale_factor : {100}]
    \cup
    [values : {ScenarioAValues}, target : {ScenarioDTarget}, mode : {"closest"},
     strategy : Strategies, constraints : {NoConstraints}, scale_factor : {100}]

\* The constraints of a batch task that reaches the solver.
Unconstrained == Constraints(None, None, None, None, Some({}), Some({}), Some(1))

\* The tasks batches are made of.  Task 2 leaves constraints out, tasks 0 and 1
\* hold the same values in two orders, task 3 asks for the exact solver in
\* RANGE mode.
TaskPool ==
    { BatchTask(2, <<2, 4, 6>>, 6, "exact", "greedy", NoConstraints, 100, 5),
      BatchTask(0, <<2, 4, 6>>, 6, "exact", "greedy", Unconstrained, 100, 5),
      BatchTask(1, <<6, 4, 2>>, 6, "exact", "greedy", Unconstrained, 100, 5),
      BatchTask(3, <<2, 5>>, 4, "range", "ortools", Unconstrained, 1, 5) }

\* The batches: lists of distinct tasks of the pool, in any order.
Batches ==
    {b \in UNION {[1..n -> TaskPool] : n \in 0..MaxTasks} :
        \A i, j \in DOMAIN b : i # j => b[i] # b[j]}

\* The batches of a later call on the same ParallelSolver: one task of the pool.
LaterBatches == {b \in Batches : Len(b) = 1}

Configs == [use_processes : BOOLEAN, enable_caching : BOOLEAN, timeout : {None, Some(1)}]
Callbacks == {"none", "returns", "raises"}

----------------------------------------------------------------------------
(* The state machine *)

SolveIdle ==
    /\ values = <<>> /\ target = 0 /\ mode = "closest" /\ strategy = "ortools"
    /\ constraints = NoConstraints /\ scale_factor = 100
    /\ pc = "idle" /\ outcome = Raised("")

BatchIdle ==
    /\ tasks = <<>> /\ config = [use_processes |-> FALSE, enable_caching |-> TRUE, timeout |-> None]
    /\ callback = "none" /\ task_pc = <<>> /\ future = <<>> /\ yielded = {}
    /\ results = <<>> /\ calls = <<>> /\ memory_cache = <<>> /\ batch_pc = "idle"
    /\ earlier = <<>>

\* A caller about to call SubsetSumSolver.solve.
SolveInit ==
    /\ \E inp \in SolveInputs :
          /\ values = inp.values /\ target = inp.target /\ mode = inp.mode
          /\ strategy = inp.strategy /\ constraints = inp.constraints
          /\ scale_factor = inp.scale_factor
    /\ pc = "call" /\ outcome = Raised("")
    /\ BatchIdle

\* A caller inside ParallelSolver.solve_batch, every task submitted to the
\* executor, on a ParallelSolver whose cache is still empty.
BatchInit ==
    /\ SolveIdle
    /\ tasks \in Batches /\ config \in Configs /\ callback \in Callbacks
    /\ task_pc = [i \in DOMAIN tasks |-> "submitted"]
    /\ future = [i \in DOMAIN tasks |-> Raised("")]
    /\ yielded = {} /\ results = <<>> /\ calls = <<>> /\ memory_cache = <<>>
    /\ batch_pc = "collecting" /\ earlier = <<>>

\* No ResultCache of its own is in use.
CacheIdle ==
    /\ result_cache = ResultCache(None, 1) /\ clock = 0 /\ recent = <<>>
    /\ cache_op = NoCacheOp /\ worker = <<>>

Init == has_ortools \in BOOLEAN /\ (SolveInit \/ BatchInit) /\ CacheIdle

\* SubsetSumSolver.solve, from call to return (or raise).
Solve ==
    /\ pc = "call"
    /\ \E o \in SolveOutcomes(values, target, mode, strategy, constraints,
                              scale_factor, has_ortools) :
          /\ outcome' = o
          /\ pc' = IF o.raised THEN "raised" ELSE "returned"
    /\ UNCHANGED <<values, target, mode, strategy, constraints, scale_factor,
                   has_ortools, batchVars>>
    /\ UNCHANGED cacheVars

\* _solve_single_task, "Check cache first" (a worker of the process pool runs
\* _solve_task_worker, which has no such step).
WorkerLookup(i) ==
    /\ task_pc[i] = "submitted"
    /\ LET cached == IF UsesCache(config) THEN CacheGet(memory_cache, tasks[i]) ELSE None
       IN  IF IsSet(cached)
           THEN /\ future' = [future EXCEPT ![i] =
                       Returned(BatchResult(tasks[i].task_id, tasks[i].target,
                                            Get(cached), TRUE))]
                /\ task_pc' = [task_pc EXCEPT ![i] = "done"]
           ELSE /\ task_pc' = [task_pc EXCEPT ![i] = "solving"]
                /\ UNCHANGED future
    /\ UNCHANGED <<solveVars, has_ortools, tasks, config, callback, yielded, results,
                   calls, memory_cache, batch_pc, earlier>>
    /\ UNCHANGED cacheVars

\* _solve_single_task / _solve_task_worker, "Solve the problem".
WorkerSolve(i) ==
    /\ task_pc[i] = "solving"
    /\ \E o \in SolveSubsetSum(tasks[i], has_ortools) :
          /\ future' = [future EXCEPT ![i] =
                 IF o.raised THEN o
                 ELSE Returned(BatchResult(tasks[i].task_id, tasks[i].target,
                                           o.result, FALSE))]
          /\ task_pc' = [task_pc EXCEPT ![i] =
                 IF ~o.raised /\ UsesCache(config) THEN "storing" ELSE "done"]
    /\ UNCHANGED <<solveVars, has_ortools, tasks, config, callback, yielded, results,
                   calls, memory_cache, batch_pc, earlier>>
    /\ UNCHANGED cacheVars

\* _solve_single_task, "Cache the result", and the return.
WorkerStore(i) ==
    /\ task_pc[i] = "storing"
    /\ memory_cache' = CachePut(memory_cache, tasks[i], future[i].result.result)
    /\ task_pc' = [task_pc EXCEPT ![i] = "done"]
    /\ UNCHANGED <<solveVars, has_ortools, tasks, config, callback, future, yielded,
                   results, calls, batch_pc, earlier>>
    /\ UNCHANGED cacheVars

\* What one pass of the collecting loop appends to results for task i's future:
\* the worker's BatchResult; then, if future.result() raised, or the progress
\* callback did (cb_raises), the except branch's failed result.
Collected(i, cb_raises) ==
    IF future[i].raised THEN <<TaskFailed(tasks[i], future[i].error)>>
    ELSE IF cb_raises THEN <<future[i].result, TaskFailed(tasks[i], "callback")>>
    ELSE <<future[i].result>>

\* One pass of "for future in as_completed(...)": a finished future not yet
\* yielded is yielded and handled.
Collect(i) ==
    /\ batch_pc = "collecting"
    /\ task_pc[i] = "done"
    /\ i \notin yielded
    /\ yielded' = yielded \cup {i}
    /\ \E cb_raises \in (IF callback = "raises" /\ ~future[i].raised
                         THEN BOOLEAN ELSE {FALSE}) :
          /\ results' = results \o Collected(i, cb_raises)
          /\ calls' = IF callback # "none" /\ ~future[i].raised
                      THEN Append(calls, <<Len(results) + 1, Len(tasks)>>)
                      ELSE calls
    /\ UNCHANGED <<solveVars, has_ortools, tasks, config, callback, task_pc, future,
                   memory_cache, batch_pc, earlier>>
    /\ UNCHANGED cacheVars

\* as_completed raises TimeoutError while a future is still pending; the
\* exception leaves _solve_with_threads / _solve_with_processes and solve_batch.
Timeout ==
    /\ batch_pc = "collecting"
    /\ IsSet(config.timeout)
    /\ \E i \in DOMAIN tasks : task_pc[i] # "done"
    /\ batch_pc' = "raised"
    /\ UNCHANGED <<solveVars, has_ortools, tasks, config, callback, task_pc, future,
                   yielded, results, calls, memory_cache, earlier>>
    /\ UNCHANGED cacheVars

\* Every future has been yielded: the results are sorted and returned.
Return ==
    /\ batch_pc = "collecting"
    /\ yielded = DOMAIN tasks
    /\ results' = SortByTaskId(results)
    /\ batch_pc' = "returned"
    /\ UNCHANGED <<solveVars, has_ortools, tasks, config, callback, task_pc, future,
                   yielded, calls, memory_cache, earlier>>
    /\ UNCHANGED cacheVars

BatchNext ==
    \/ \E i \in DOMAIN tasks : WorkerLookup(i)
    \/ \E i \in DOMAIN tasks : WorkerSolve(i)
    \/ \E i \in DOMAIN tasks : WorkerStore(i)
    \/ \E i \in DOMAIN tasks : Collect(i)
    \/ Timeout
    \/ Return

Next == Solve \/ BatchNext

\* One call of solve, or one call of solve_batch on a new ParallelSolver.
Spec == Init /\ [][Next]_vars

\* One call of solve.
SolveOnlyInit == has_ortools \in BOOLEAN /\ SolveInit /\ CacheIdle

SolveSpec == SolveOnlyInit /\ [][Solve]_vars

\* One call of solve with the Hybrid strategy.
HybridInit == SolveOnlyInit /\ strategy = "hybrid"
HybridSpec == HybridInit /\ [][Solve]_vars

\* A ParallelSolver from its construction on: the calls of solve_batch made on
\* it, one after the other.
BatchOnlyInit == has_ortools \in BOOLEAN /\ BatchInit /\ CacheIdle

\* solve_batch is called again on the same ParallelSolver (same config, same
\* cache) once the call before has ended and its executor has shut down, which
\* waits for every worker.
NextCall ==
    /\ batch_pc \in {"returned", "raised"}
    /\ \A i \in DOMAIN tasks : task_pc[i] = "done"
    /\ Len(earlier) + 1 < MaxCalls
    /\ earlier' = Append(earlier, [tasks |-> tasks, future |-> future, ended |-> batch_pc])
    /\ tasks' \in LaterBatches
    /\ task_pc' = [i \in DOMAIN tasks' |-> "submitted"]
    /\ future' = [i \in DOMAIN tasks' |-> Raised("")]
    /\ yielded' = {} /\ results' = <<>> /\ calls' = <<>>
    /\ batch_pc' = "collecting"
    /\ UNCHANGED <<solveVars, has_ortools, config, callback, memory_cache>>
    /\ UNCHANGED cacheVars

LifeNext == BatchNext \/ NextCall

BatchSpec == BatchOnlyInit /\ [][LifeNext]_vars

\* A ResultCache from its construction on, its methods called one at a time.
\* has_ortools matters to the results that are put only.
CacheInit ==
    /\ SolveIdle /\ BatchIdle /\ has_ortools = FALSE
    /\ result_cache \in {ResultCache(dir, size) :
                             dir \in {None, Some("cache")}, size \in 1..MaxCacheSize}
    /\ clock = 0 /\ recent = << >> /\ cache_op = NoCacheOp /\ worker = << >>

\* The results a caller has to put for a task: those solve returns for it.
Solved(t) ==
    {o.result : o \in {x \in SolveOutcomes(t.values, t.target, t.mode, t.strategy,
                                           t.constraints, t.scale_factor, has_ortools) :
                          ~x.raised}}

\* The state after a call on the cache for key that did step.
CacheCalled(op, key, step) ==
    LET accessed == step.hit \/ step.inserted
    IN  /\ clock < MaxClock
        /\ result_cache' = step.cache
        /\ clock' = IF accessed THEN clock + 1 ELSE clock
        /\ recent' = IF accessed THEN Touch(recent, Get(key)) ELSE recent
        /\ cache_op' = CacheOp(op, key, step, result_cache,
                               LeastRecent(recent, DOMAIN result_cache.memory_cache))
        /\ UNCHANGED <<solveVars, has_ortools, batchVars, worker>>

\* cache.get(task.values, task.target, ...)
DoGet(t) ==
    CacheCalled("get", Some(GenerateKey(t)),
                ResultCacheGet(result_cache, GenerateKey(t), clock + 1))

\* cache.put(task.values, task.target, ..., result, ...)
DoPut(t, r) ==
    CacheCalled("put", Some(GenerateKey(t)),
                ResultCachePut(result_cache, GenerateKey(t), r, clock + 1))

\* cache.clear()
DoClear == CacheCalled("clear", None, ResultCacheClear(result_cache))

CacheNext ==
    \/ \E t \in TaskPool : DoGet(t)
    \/ \E t \in TaskPool : \E r \in Solved(t) : DoPut(t, r)
    \/ DoClear

CacheSpec == CacheInit /\ [][CacheNext]_vars

----------------------------------------------------------------------------
(* The ResultCache of a ParallelSolver in thread mode: the worker threads of
   the pool each run _solve_single_task on the one cache, no cache_dir
   configured.  A step of a worker is one operation on a dictionary (a test,
   a read, a write, a delete, min over the access times), which the
   interpreter runs without interruption; threads may be switched between any
   two.  max_size is scaled down from the 1000 of ParallelSolver.__init__. *)

WorkerAt(t, at) ==
    [pc |-> at, task |-> t, result |-> None, oldest_key |-> None, error |-> ""]

SharedInit ==
    /\ SolveIdle /\ BatchIdle /\ has_ortools = FALSE
    /\ result_cache \in {ResultCache(None, size) : size \in 1..MaxCacheSize}
    /\ clock = 0 /\ recent = << >> /\ cache_op = NoCacheOp
    /\ worker \in {[w \in 1..NumWorkers |-> WorkerAt(b[w], "get_test")] :
                      b \in {x \in [1..NumWorkers -> TaskPool] :
                                \A i, j \in 1..NumWorkers : i # j => x[i] # x[j]}}

KeyOf(w) == GenerateKey(worker[w].task)

\* A step of worker w that leaves the cache and the clock alone.
WorkerMoves(w, next) ==
    /\ worker' = [worker EXCEPT ![w] = next]
    /\ UNCHANGED <<solveVars, has_ortools, batchVars, result_cache, clock, recent, cache_op>>

\* A step of worker w that writes the cache, having read the clock or not.
WorkerWrites(w, next, c, tick) ==
    /\ worker' = [worker EXCEPT ![w] = next]
    /\ result_cache' = c
    /\ clock' = IF tick THEN clock + 1 ELSE clock
    /\ UNCHANGED <<solveVars, has_ortools, batchVars, recent, cache_op>>

\* get: "if key in self.memory_cache"; on a miss get returns None and the
\* worker goes on to solve.
GetTest(w) ==
    /\ worker[w].pc = "get_test"
    /\ WorkerMoves(w, [worker[w] EXCEPT !.pc =
           IF KeyOf(w) \in DOMAIN result_cache.memory_cache THEN "get_touch" ELSE "solve"])

\* get: "self.access_times[key] = time.time()"
GetTouch(w) ==
    /\ worker[w].pc = "get_touch"
    /\ WorkerWrites(w, [worker[w] EXCEPT !.pc = "get_return"],
                    [result_cache EXCEPT !.access_times = With(@, KeyOf(w), clock + 1)],
                    TRUE)

\* get: "return self.memory_cache[key]"; the worker returns the cached result.
GetReturn(w) ==
    /\ worker[w].pc = "get_return"
    /\ WorkerMoves(w,
           IF KeyOf(w) \in DOMAIN result_cache.memory_cache
           THEN [worker[w] EXCEPT !.pc = "done",
                                  !.result = Some(result_cache.memory_cache[KeyOf(w)])]
           ELSE [worker[w] EXCEPT !.pc = "raised", !.error = "KeyError"])

\* _solve_single_task, "Solve the problem"; put is called with the result.
SolveTask(w) ==
    /\ worker[w].pc = "solve"
    /\ \E o \in SolveSubsetSum(worker[w].task, has_ortools) :
          WorkerMoves(w,
              IF o.raised THEN [worker[w] EXCEPT !.pc = "failed", !.error = o.error]
              ELSE [worker[w] EXCEPT !.pc = "add_while", !.result = Some(o.result)])

\* _add_to_memory_cache: "while len(self.memory_cache) >= self.max_size"
AddWhile(w) ==
    /\ worker[w].pc = "add_while"
    /\ WorkerMoves(w, [worker[w] EXCEPT !.pc =
           IF Cardinality(DOMAIN result_cache.memory_cache) >= result_cache.max_size
           THEN "add_min" ELSE "add_store"])

\* _add_to_memory_cache: "oldest_key = min(self.access_times.keys(), ...)"
AddMin(w) ==
    /\ worker[w].pc = "add_min"
    /\ WorkerMoves(w,
           IF DOMAIN result_cache.access_times = {}
           THEN [worker[w] EXCEPT !.pc = "raised", !.error = "ValueError"]
           ELSE [worker[w] EXCEPT !.pc = "add_del_memory",
                                  !.oldest_key = Some(OldestKey(result_cache.access_times))])

\* _add_to_memory_cache: "del self.memory_cache[oldest_key]"
AddDelMemory(w) ==
    /\ worker[w].pc = "add_del_memory"
    /\ IF Get(worker[w].oldest_key) \in DOMAIN result_cache.memory_cache
       THEN WorkerWrites(w, [worker[w] EXCEPT !.pc = "add_del_time"],
                         [result_cache EXCEPT
                             !.memory_cache = Without(@, Get(worker[w].oldest_key))],
                         FALSE)
       ELSE WorkerMoves(w, [worker[w] EXCEPT !.pc = "raised", !.error = "KeyError"])

\* _add_to_memory_cache: "del self.access_times[oldest_key]"
AddDelTime(w) ==
    /\ worker[w].pc = "add_del_time"
    /\ IF Get(worker[w].oldest_key) \in DOMAIN result_cache.access_times
       THEN WorkerWrites(w, [worker[w] EXCEPT !.pc = "add_while"],
                         [result_cache EXCEPT
                             !.access_times = Without(@, Get(worker[w].oldest_key))],
                         FALSE)
       ELSE WorkerMoves(w, [worker[w] EXCEPT !.pc = "raised", !.error = "KeyError"])

\* _add_to_memory_cache: "self.memory_cache[key] = result"
AddStore(w) ==
    /\ worker[w].pc = "add_store"
    /\ WorkerWrites(w, [worker[w] EXCEPT !.pc = "add_time"],
                    [result_cache EXCEPT
                        !.memory_cache = With(@, KeyOf(w), Get(worker[w].result))],
                    FALSE)

\* _add_to_memory_cache: "self.access_times[key] = time.time()"; put returns,
\* and the worker with it.
AddTime(w) ==
    /\ worker[w].pc = "add_time"
    /\ WorkerWrites(w, [worker[w] EXCEPT !.pc = "done"],
                    [result_cache EXCEPT !.access_times = With(@, KeyOf(w), clock + 1)],
                    TRUE)

SharedNext ==
    \/ \E w \in DOMAIN worker : GetTest(w)
    \/ \E w \in DOMAIN worker : GetTouch(w)
    \/ \E w \in DOMAIN worker : GetReturn(w)
    \/ \E w \in DOMAIN worker : SolveTask(w)
    \/ \E w \in DOMAIN worker : AddWhile(w)
    \/ \E w \in DOMAIN worker : AddMin(w)
    \/ \E w \in DOMAIN worker : AddDelMemory(w)
    \/ \E w \in DOMAIN worker : AddDelTime(w)
    \/ \E w \in DOMAIN worker : AddStore(w)
    \/ \E w \in DOMAIN worker : AddTime(w)

SharedCacheSpec == SharedInit /\ [][SharedNext]_vars

----------------------------------------------------------------------------
(* Properties *)

\* The result solve returned, and the strategies that are this repository's own.
Res == outcome.result
OwnStrategies == {"greedy", "dynamic", "hybrid"}
SolveReturned == pc = "returned"

IdsSorted(rs) == \A k \in 1..(Len(rs) - 1) : rs[k].task_id <= rs[k + 1].task_id
CountOf(rs, id) == Cardinality({k \in DOMAIN rs : rs[k].task_id = id})

\* C1: in thread mode with no batch timeout, whatever the order in which the
\* tasks complete, the list solve_batch returns has exactly one entry per
\* submitted task and is sorted ascending by task_id.
C1_BatchShape ==
    (batch_pc = "returned" /\ ~config.use_processes /\ ~IsSet(config.timeout)) =>
        /\ Len(results) = Len(tasks)
        /\ \A i \in DOMAIN tasks : CountOf(results, tasks[i].task_id) = 1
        /\ IdsSorted(results)

\* The same shape for the batches whose progress callback, if any, returns.
C1_ShapeWhenCallbackReturns ==
    (batch_pc = "returned" /\ ~IsSet(config.timeout) /\ callback # "raises") =>
        /\ Len(results) = Len(tasks)
        /\ \A i \in DOMAIN tasks : CountOf(results, tasks[i].task_id) = 1
        /\ IdsSorted(results)

\* Some step of the batch other than a timeout can be taken: a worker can go
\* on (its solve has an outcome), or the collecting loop can.
BatchCanProceed ==
    \/ ENABLED (\E i \in DOMAIN tasks : WorkerLookup(i))
    \/ \E i \in DOMAIN tasks :
          task_pc[i] = "solving" /\ SolveSubsetSum(tasks[i], has_ortools) # {}
    \/ ENABLED (\E i \in DOMAIN tasks : WorkerStore(i))
    \/ ENABLED (\E i \in DOMAIN tasks : Collect(i))
    \/ ENABLED Return

\* C2: a task whose execution raises does not abort the batch.  Without a
\* batch timeout solve_batch never ends by raising and can always go on until
\* it returns; in the returned list every entry of a task that raised is an
\* unsuccessful Result with status TASK_FAILED, the captured error as message,
\* empty selections and cache_hit false, and every other task has the
\* BatchResult its own worker produced, which on a cache miss is a result of
\* its own solve.
C2_FailureIsolation ==
    /\ batch_pc = "raised" => IsSet(config.timeout)
    /\ (batch_pc = "collecting" /\ ~IsSet(config.timeout)) => BatchCanProceed
    /\ batch_pc = "returned" =>
         \A i \in DOMAIN tasks :
            IF future[i].raised
            THEN /\ CountOf(results, tasks[i].task_id) >= 1
                 /\ \A k \in DOMAIN results :
                       results[k].task_id = tasks[i].task_id =>
                          /\ results[k].target = tasks[i].target
                          /\ ~results[k].cache_hit
                          /\ ~results[k].result.success
                          /\ results[k].result.solver_status = "TASK_FAILED"
                          /\ results[k].result.message = future[i].error
                          /\ results[k].result.selected_indices = <<>>
                          /\ results[k].result.selected_values = <<>>
            ELSE \E k \in DOMAIN results :
                    /\ results[k] = future[i].result
                    /\ results[k].task_id = tasks[i].task_id
                    /\ ~results[k].cache_hit =>
                          Returned(results[k].result)
                              \in SolveSubsetSum(tasks[i], has_ortools)

\* C2's case: a returned batch in which one task raised and another returned a
\* successful result.
C2_Witness ==
    /\ batch_pc = "returned"
    /\ \E i, j \in DOMAIN tasks :
          /\ future[i].raised
          /\ ~future[j].raised /\ future[j].result.result.success

\* C3: a successful LE result of Greedy, DynamicProgramming or Hybrid has
\* total_sum <= target, for every target and scale factor.
C3_LeWithinTarget ==
    (SolveReturned /\ mode = "le" /\ strategy \in OwnStrategies /\ Res.success) =>
        Res.total_sum <= target

\* C4: a successful GE result of Greedy, DynamicProgramming or Hybrid has
\* total_sum >= target.
C4_GeReachesTarget ==
    (SolveReturned /\ mode = "ge" /\ strategy \in OwnStrategies /\ Res.success) =>
        Res.total_sum >= target

\* C5: a successful Exact result of Greedy, DynamicProgramming or Hybrid has
\* total_sum = target and error 0.
C5_ExactHitsTarget ==
    (SolveReturned /\ mode = "exact" /\ strategy \in OwnStrategies /\ Res.success) =>
        (Res.total_sum = target /\ Res.error = 0)

\* C6: with 0 <= min_items <= max_items both set (max_items = 0 included), a
\* successful result selects between min_items and max_items items.
C6_ItemCountWithinBounds ==
    (/\ SolveReturned /\ strategy \in OwnStrategies /\ Res.success
     /\ IsSet(constraints.min_items) /\ IsSet(constraints.max_items)
     /\ 0 <= Get(constraints.min_items)
     /\ Get(constraints.min_items) <= Get(constraints.max_items)) =>
        /\ Get(constraints.min_items) <= Len(Res.selected_indices)
        /\ Len(Res.selected_indices) <= Get(constraints.max_items)

\* The required indices the value filter removed.
RequiredFilteredOut ==
    IF TruthySet(constraints.required_indices)
    THEN {i \in Get(constraints.required_indices) :
             i \in 0..(Len(values) - 1) /\ ~Keeps(values, constraints, i)}
    ELSE {}

\* C7: a successful result of Greedy, DynamicProgramming or Hybrid contains
\* every required index, and a solve whose filter removed a required index
\* returns an unsuccessful result, not a successful one (the claim asks for a
\* constraint-violation status as well; the formula accepts any unsuccessful
\* result, so a violation of it violates the claim under either reading).
C7_RequiredIndicesSelected ==
    (SolveReturned /\ strategy \in OwnStrategies) =>
        /\ (Res.success /\ TruthySet(constraints.required_indices)) =>
               Get(constraints.required_indices) \cap (0..(Len(values) - 1))
                   \subseteq Range(Res.selected_indices)
        /\ RequiredFilteredOut # {} => ~Res.success

\* The Result invariant, for a result r of a solve for target tgt.
ResultInvariant(r, tgt) ==
    /\ r.target = tgt
    /\ r.success =>
          /\ Len(r.selected_indices) = Len(r.selected_values)
          /\ SumSeq(r.selected_values) = r.total_sum
          /\ r.error = Abs(tgt - r.total_sum)
    /\ ~r.success =>
          /\ r.selected_indices = <<>> /\ r.selected_values = <<>>
          /\ r.total_sum = 0
          /\ r.error = Abs(tgt)

\* C8: every Result solve returns, and every Result of a batch (TASK_FAILED
\* ones included), satisfies the Result invariant.
C8_ResultInvariant ==
    /\ SolveReturned => ResultInvariant(Res, target)
    /\ \A k \in DOMAIN results : ResultInvariant(results[k].result, results[k].target)

\* C8's case: solve returned a successful selection of several items from a
\* list the filter had shortened, so that the indices were mapped back.
C8_Witness ==
    /\ SolveReturned /\ Res.success
    /\ Len(Res.selected_indices) >= 2
    /\ Keeps(values, constraints, 0) = FALSE

\* What Greedy is run on by solve, and its candidate selection there.
Filtered == FilteredValues(values, constraints)
GreedyRan == strategy = "greedy" /\ pc # "call" /\ pc # "idle" /\ Filtered # <<>>

\* C9 (as amended): on a non-empty filtered list Greedy never raises, and it
\* returns success=false, with status CONSTRAINT_VIOLATION, exactly when
\* min_items is set (and not 0) and the one selection its scan built has fewer
\* than min_items items.
C9_GreedyFailsOnlyOnMinItems ==
    GreedyRan =>
        /\ pc = "returned"
        /\ ~Res.success <=>
              /\ constraints.present
              /\ IsSet(constraints.min_items) /\ Get(constraints.min_items) # 0
              /\ Len(GreedySelection(Filtered, target, mode, constraints))
                    < Get(constraints.min_items)
        /\ ~Res.success => Res.solver_status = "CONSTRAINT_VIOLATION"
        /\ Res.success => Res.solver_status = "FEASIBLE"

\* The visiting orders of some of the positions of a list of n items.
Orders(n) ==
    {o \in UNION {[1..m -> 0..(n - 1)] : m \in 0..n} :
        \A a, b \in DOMAIN o : a # b => o[a] # o[b]}

\* Whether a selection of at least min_items items is admissible: offered in
\* some order, every one of the items passes the scan's max_items and mode
\* checks.
MinItemsReachable ==
    \E o \in Orders(Len(Filtered)) :
        /\ Len(o) >= Get(constraints.min_items)
        /\ GreedyScan([sel |-> <<>>, sum |-> 0, stop |-> FALSE], o, 1,
                      Filtered, target, mode, constraints).sel = o

\* C9 (as claimed): Greedy returns success=false only when min_items is set
\* and no admissible selection has min_items items.
C9_GreedyFailsOnlyWhenUnreachable ==
    (GreedyRan /\ pc = "returned" /\ ~Res.success) =>
        (IsSet(constraints.min_items) /\ ~MinItemsReachable)

\* C9's case: Greedy failed the minimum-items check although a selection of
\* min_items items was admissible.
C9_Witness ==
    GreedyRan /\ pc = "returned" /\ ~Res.success /\ MinItemsReachable

\* C10: Scenario A (values 1..5, target 8, Exact) succeeds with total_sum 8 and
\* error 0 under Greedy, DynamicProgramming and Hybrid, and under the default
\* strategy when the exact solver is unavailable.
C10_ScenarioA ==
    (/\ pc # "call" /\ values = ScenarioAValues /\ target = ScenarioATarget
     /\ mode = "exact"
     /\ strategy \in OwnStrategies \/ (strategy = "ortools" /\ ~has_ortools)) =>
        /\ pc = "returned"
        /\ Res.success /\ Res.total_sum = ScenarioATarget /\ Res.error = 0

\* C11: Scenario D (values 1..5, target 7.5, Closest, scale factor 100)
\* succeeds with error <= 1.0 under Greedy, DynamicProgramming and Hybrid.
C11_ScenarioD ==
    (/\ pc # "call" /\ values = ScenarioAValues /\ target = ScenarioDTarget
     /\ mode = "closest" /\ scale_factor = 100 /\ strategy \in OwnStrategies) =>
        /\ pc = "returned"
        /\ Res.success /\ Res.error <= Whole(1)

\* A call of solve on Scenario C, under one of the repository's own strategies,
\* has ended.
ScenarioCRan ==
    /\ pc # "call" /\ values = ScenarioCValues /\ target = ScenarioCTarget
    /\ constraints = ScenarioCConstraints /\ strategy \in OwnStrategies

\* C12 (as claimed): Scenario C returns success=false with status
\* CONSTRAINT_VIOLATION under Greedy, DynamicProgramming and Hybrid, in every
\* mode.
C12_ScenarioCConstraintViolation ==
    ScenarioCRan =>
        /\ pc = "returned"
        /\ ~Res.success /\ Res.solver_status = "CONSTRAINT_VIOLATION"

\* C12 (as amended): Scenario C never succeeds; the result solve returns is
\* unsuccessful with the failure status of the strategy asked for,
\* CONSTRAINT_VIOLATION under Greedy, NO_SOLUTION under DynamicProgramming and
\* ALL_STRATEGIES_FAILED under Hybrid; the one call that returns nothing is
\* Hybrid in Range mode with the exact solver available, which raises.
C12_ScenarioCFails ==
    ScenarioCRan =>
        IF strategy = "hybrid" /\ mode = "range" /\ has_ortools
        THEN pc = "raised"
        ELSE /\ pc = "returned"
             /\ ~Res.success
             /\ Res.solver_status =
                    (CASE strategy = "greedy" -> "CONSTRAINT_VIOLATION"
                       [] strategy = "dynamic" -> "NO_SOLUTION"
                       [] strategy = "hybrid" -> "ALL_STRATEGIES_FAILED")

\* C12's case: Scenario C under DynamicProgramming has returned.
C12_Witness ==
    ScenarioCRan /\ strategy = "dynamic" /\ pc = "returned" /\ ~Res.success

\* C13: in every successful result of solve, under every strategy, the
\* selected indices are pairwise-distinct indices of the original value list,
\* selected_values[k] = values[selected_indices[k]], no selected index is
\* forbidden, and every selected value lies within the min_value / max_value
\* bounds that are set.
C13_SelectionValid ==
    (SolveReturned /\ Res.success) =>
        LET si == Res.selected_indices
            sv == Res.selected_values
        IN  /\ \A k \in DOMAIN si : si[k] \in 0..(Len(values) - 1)
            /\ \A j, k \in DOMAIN si : j # k => si[j] # si[k]
            /\ Len(sv) = Len(si)
            /\ \A k \in DOMAIN si : sv[k] = At(values, si[k])
            /\ IsSet(constraints.forbidden_indices) =>
                   \A k \in DOMAIN si : si[k] \notin Get(constraints.forbidden_indices)
            /\ IsSet(constraints.min_value) =>
                   \A k \in DOMAIN sv : sv[k] >= Get(constraints.min_value)
            /\ IsSet(constraints.max_value) =>
                   \A k \in DOMAIN sv : sv[k] <= Get(constraints.max_value)

\* C13's case: a successful selection of several items from a list one of
\* whose positions is forbidden, and so was filtered out.
C13_Witness ==
    /\ SolveReturned /\ Res.success
    /\ Len(Res.selected_indices) >= 2
    /\ IsSet(constraints.forbidden_indices)
    /\ Get(constraints.forbidden_indices) \cap (0..(Len(values) - 1)) # {}

\* C14: solve returns a SolverResult and never raises, for every value list,
\* target, constraint set, mode and strategy, whether or not the exact solver
\* is available.
C14_SolveNeverRaises ==
    pc # "raised"

\* C15: an empty value list makes solve return the unsuccessful result with
\* status EMPTY_INPUT and error |target|, and a non-empty list of which the
\* filter keeps nothing the one with status NO_VALID_VALUES; no strategy is
\* run (the result is built by solve itself, also for a mode and strategy whose
\* run would raise) and nothing is raised.
C15_EmptyAndFilteredInputs ==
    (pc # "call" /\ pc # "idle" /\ Filtered = <<>>) =>
        /\ pc = "returned"
        /\ ~Res.success
        /\ Res.selected_indices = <<>> /\ Res.selected_values = <<>>
        /\ Res.total_sum = 0 /\ Res.error = Abs(target)
        /\ Res.strategy_used = strategy /\ Res.mode_used = mode
        /\ Res.solver_status =
               (IF values = <<>> THEN "EMPTY_INPUT" ELSE "NO_VALID_VALUES")
        /\ (values = <<>> /\ target = ScenarioBTarget) => Res.error = Whole(100)

\* C15's case: a list of which the filter keeps nothing, one value for not
\* being finite and another although finite, in the mode and strategy whose
\* run would raise.
C15_Witness ==
    /\ pc = "returned" /\ Filtered = <<>>
    /\ Len(values) >= 2
    /\ \E i \in DOMAIN values : ~IsFinite(values[i])
    /\ \E i \in DOMAIN values : IsFinite(values[i])
    /\ mode = "range" /\ strategy = "ortools" /\ has_ortools

\* The BatchResult the collecting loop reports for the outcome f of task t's
\* worker.
Reported(t, f) == IF f.raised THEN TaskFailed(t, f.error) ELSE f.result

\* C16: with caching enabled in thread mode, a task run in an earlier call of
\* solve_batch and run again, unchanged, on the same ParallelSolver yields the
\* same Result both times, the two BatchResults differing at most in cache_hit.
C16_CacheIdempotence ==
    UsesCache(config) =>
        \A n \in DOMAIN earlier : \A j \in DOMAIN earlier[n].tasks : \A i \in DOMAIN tasks :
            (earlier[n].tasks[j] = tasks[i] /\ task_pc[i] = "done") =>
                LET first == Reported(earlier[n].tasks[j], earlier[n].future[j])
                    second == Reported(tasks[i], future[i])
                IN  /\ second.result = first.result
                    /\ second.task_id = first.task_id
                    /\ second.target = first.target

\* The step in which task i's worker looks the cache up does what the cache
\* held then says: a hit answers with the entry held and cache_hit true and runs
\* no solve, a miss goes on to the solve.
LookupFollowsCache(i) ==
    (task_pc[i] = "submitted" /\ task_pc'[i] # "submitted") =>
        IF GenerateKey(tasks[i]) \in DOMAIN memory_cache
        THEN /\ task_pc'[i] = "done"
             /\ future'[i] = Returned(BatchResult(tasks[i].task_id, tasks[i].target,
                                                  memory_cache[GenerateKey(tasks[i])], TRUE))
        ELSE task_pc'[i] = "solving"

\* What holds of the tasks whose workers are done: a task answered with
\* cache_hit false was solved and its Result is stored under its key, and a
\* task whose key an earlier, returned batch missed is a hit.
MissesAreStored ==
    \A i \in DOMAIN tasks :
        /\ task_pc[i] = "done" =>
              /\ ~future[i].raised
              /\ GenerateKey(tasks[i]) \in DOMAIN memory_cache
        /\ \A n \in DOMAIN earlier : \A j \in DOMAIN earlier[n].tasks :
              (/\ earlier[n].ended = "returned"
               /\ GenerateKey(earlier[n].tasks[j]) = GenerateKey(tasks[i])
               /\ task_pc[i] # "submitted") =>
                  /\ task_pc[i] = "done"
                  /\ ~future[i].raised /\ future[i].result.cache_hit

\* C17: in thread mode with caching enabled a task is answered with cache_hit
\* true exactly when the cache held an entry for its key when it was looked
\* up, and then no solve is run; a task that misses is solved, its Result is
\* stored under its key and it is answered with cache_hit false; so once a
\* batch with a miss for a key has returned, a later task with that key on the
\* same ParallelSolver is a hit.
C17_CacheFlow ==
    /\ [][UsesCache(config) => \A i \in DOMAIN tasks : LookupFollowsCache(i)]_vars
    /\ [](UsesCache(config) => MissesAreStored)

\* C18: a progress callback given to a batch of N tasks has been invoked, when
\* the batch returns, exactly once per task, whether the task's solve returned
\* or raised: N times, with arguments (k, N) for k = 1, ..., N in that order.
C18_ProgressCalls ==
    (batch_pc = "returned" /\ callback # "none") =>
        calls = [k \in 1..Len(tasks) |-> <<k, Len(tasks)>>]

\* C19: when the batch timeout (ParallelConfig.timeout) elapses while tasks are
\* still running, solve_batch does not abort: the call is never left by an
\* exception, and a batch that has ended holds one BatchResult per task.
C19_TimeoutKeepsTasks ==
    IsSet(config.timeout) =>
        /\ batch_pc # "raised"
        /\ batch_pc = "returned" => Len(results) = Len(tasks)

\* C20: for every BatchTask, those with absent constraints or unset index sets
\* included, the Result reported for a cache miss is a Result that
\* SubsetSumSolver.solve returns when called directly with the task's values,
\* target, mode, strategy, constraints and scale factor (solve_time is not
\* modelled); in thread mode and in process mode.
C20_MissEqualsDirectSolve ==
    \A i \in DOMAIN tasks :
        (task_pc[i] = "done" /\ (future[i].raised \/ ~future[i].result.cache_hit)) =>
            LET t == tasks[i]
                direct == {o \in SolveOutcomes(t.values, t.target, t.mode, t.strategy,
                                               t.constraints, t.scale_factor,
                                               has_ortools) : ~o.raised}
            IN  direct # {} =>
                    \E o \in direct : o.result = Reported(t, future[i]).result

\* What _solve_dynamic is run on by solve: the scaled filtered values, the
\* scaled target, and the table its forward pass builds.
DynamicRan == strategy = "dynamic" /\ pc = "returned" /\ Filtered # <<>>
DpScaledValues == ScaledValues(Filtered, scale_factor)
DpScaledTarget == Scaled(target, scale_factor)
DpBuilt == DpTable(DpScaledValues, DpScaledTarget, constraints)

\* The scaled sum of the first m positions, ascending, of a set of positions.
PrefixSum(sv, S, m) == SumSeq([k \in 1..m |-> At(sv, Ascending(S)[k])])

\* The states (k, s) of some k-element subset of the items whose intermediate
\* states, taken in item order, all pass the max_items check and the bound.
SubsetStates(sv, st, c) ==
    {<<Cardinality(S), SumOver(sv, S)>> :
        S \in {T \in SUBSET (0..(Len(sv) - 1)) :
                 \A m \in 1..Cardinality(T) :
                     /\ DpMaxItemsOk(c, m)
                     /\ DpWithinBound(PrefixSum(sv, T, m), st, SumAbs(sv))}}

\* C21: in the dynamic-programming forward pass every state reachable before
\* item i produces the state with item i added, unless max_items or the bound
\* drops it; after all items the reachable set is the set of (k, s) of the
\* k-element subsets whose intermediate states pass those two checks.
C21_DpReachesEverySubset ==
    DynamicRan => Range(DpBuilt.keys) = SubsetStates(DpScaledValues, DpScaledTarget, constraints)

\* The tables after 0, 1, ..., j passes of the outer loop "for i in range(n)".
RECURSIVE DpPasses(_, _, _, _)
DpPasses(j, sv, st, c) ==
    IF j = 0 THEN << [keys |-> << <<0, 0>> >>, parent |-> << >>] >>
    ELSE LET sofar == DpPasses(j - 1, sv, st, c)
             tbl == sofar[j]
         IN  Append(sofar, DpInner(tbl, tbl.keys, 1, j - 1, sv, st, SumAbs(sv), c))

\* The state at which following parent from key stops.
RECURSIVE DpChainEnd(_, _)
DpChainEnd(parent, key) ==
    IF key \in DOMAIN parent
    THEN DpChainEnd(parent, <<parent[key][1], parent[key][2]>>)
    ELSE key
DpResult == SolveDynamic(Filtered, target, mode, constraints, scale_factor)

\* C22: whenever the dynamic-programming solver succeeds with chosen state
\* (k, s), following the back-pointers from (k, s) ends at (0, 0) and gives
\* strictly ascending filtered-domain indices, exactly k of them, whose scaled
\* values sum to s; and a back-pointer, once set, is never overwritten by a
\* later pass of the forward loop.
C22_DpReconstruction ==
    (DynamicRan /\ DpResult.success) =>
        LET passes == DpPasses(Len(Filtered), DpScaledValues, DpScaledTarget, constraints)
            built == passes[Len(Filtered) + 1]
            key == Get(DpBestKey(built.keys, DpScaledTarget, mode, constraints))
            idx == DpResult.selected_indices
        IN  /\ built = DpBuilt
            /\ DpChainEnd(built.parent, key) = <<0, 0>>
            /\ \A a \in DOMAIN idx : 0 <= idx[a] /\ idx[a] < Len(Filtered)
            /\ \A a, b \in DOMAIN idx : a < b => idx[a] < idx[b]
            /\ Len(idx) = key[1]
            /\ SumSeq([a \in DOMAIN idx |-> At(DpScaledValues, idx[a])]) = key[2]
            /\ \A j \in 1..Len(Filtered) :
                   \A k \in DOMAIN passes[j].parent :
                       passes[j + 1].parent[k] = passes[j].parent[k]

\* C22's case: the solver succeeded with a chosen state of two items or more.
C22_Witness ==
    DynamicRan /\ DpResult.success /\ Len(DpResult.selected_indices) >= 2

\* _solve_dynamic with the check "abs(new_sum - scaled_target) <= max_sum"
\* taken out of the forward pass: the bound handed to the pass is one that no
\* sum of items can exceed.
SolveDynamicUnbounded(vs, tgt, md, c, sf) ==
    LET sv == ScaledValues(vs, sf)
        st == Scaled(tgt, sf)
        tbl == DpForward([keys |-> << <<0, 0>> >>, parent |-> << >>], 0, sv, st,
                         SumAbs(sv) + Abs(st), c)
        best == DpBestKey(tbl.keys, st, md, c)
    IN  IF best = None
        THEN Failed(tgt, "dynamic", md, "NO_SOLUTION",
                    "No valid solution found with dynamic programming")
        ELSE Succeeded(vs, Reverse(DpBacktrack(tbl.parent, Get(best))),
                       tgt, "dynamic", md, "OPTIMAL")

\* C23: the state-space bound of the dynamic-programming solver is not
\* semantically meaningful: taking the check out of the forward pass changes
\* neither whether the solver succeeds nor the error of the result.
C23_DpBoundNotMeaningful ==
    DynamicRan =>
        LET unbounded == SolveDynamicUnbounded(Filtered, target, mode, constraints,
                                               scale_factor)
        IN  /\ unbounded.success = DpResult.success
            /\ unbounded.error = DpResult.error

\* Hybrid was run by solve, on the filtered list.
HybridRan == strategy = "hybrid" /\ pc \in {"returned", "raised"} /\ Filtered # <<>>

\* Whether the exact solver is on Hybrid's list, the results it may return
\* there, and the results of the strategies after it (dynamic programming,
\* greedy).
HybridTriesOrtools == HybridStrategies(Len(Filtered), has_ortools)[1] = "ortools"
HybridOrtoolsResults ==
    {a \in SolveOrtools(Filtered, target, mode, constraints, scale_factor) : ~a.raised}
HybridRest ==
    (IF HybridStrategies(Len(Filtered), has_ortools)[2] = "dynamic"
     THEN <<DpResult>> ELSE << >>)
    \o <<SolveGreedy(Filtered, target, mode, constraints)>>

\* The results of the strategies attempted: those up to the first successful
\* one with error < 1e-10.
Attempted(rs) ==
    LET exact == {k \in DOMAIN rs : rs[k].success /\ rs[k].error = 0}
        last == IF exact = {} THEN Len(rs)
                ELSE CHOOSE k \in exact : \A j \in exact : k <= j
    IN  {rs[k] : k \in 1..last}

\* What the claim asks of the result r of Hybrid given the results attempted.
HybridAggregates(r, attempted) ==
    LET won == {a \in attempted : a.success}
    IN  /\ ~r.success <=> won = {}
        /\ ~r.success => r.solver_status = "ALL_STRATEGIES_FAILED"
        /\ r.success =>
              /\ r.strategy_used = "hybrid"
              /\ \A a \in won : r.error <= a.error
              /\ \E a \in won : a.error = r.error /\ a.solver_status = r.solver_status

C27_CacheHitValidForTask ==
    \A i \in DOMAIN tasks :
        (task_pc[i] = "done" /\ ~future[i].raised /\ future[i].result.cache_hit) =>
            LET r == future[i].result.result
            IN  /\ Len(r.selected_values) = Len(r.selected_indices)
                /\ \A k \in DOMAIN r.selected_indices :
                      /\ 0 <= r.selected_indices[k]
                      /\ r.selected_indices[k] < Len(tasks[i].values)
                      /\ r.selected_values[k] = At(tasks[i].values, r.selected_indices[k])

\* The list vs with the positions of F physically removed.
RemovePositions(vs, F) ==
    LET keep == Ascending({i \in 0..(Len(vs) - 1) : i \notin F})
    IN  [k \in 1..Len(keep) |-> At(vs, keep[k])]

\* The constraints give a forbidden set and nothing else.
OnlyForbidden(c) ==
    /\ c.present /\ TruthySet(c.forbidden_indices)
    /\ ~IsSet(c.min_items) /\ ~IsSet(c.max_items)
    /\ ~IsSet(c.min_value) /\ ~IsSet(c.max_value)
    /\ ~TruthySet(c.required_indices)

\* C28: the forbidden-index re-check inside Greedy never rejects an item that
\* survived the value filter: the values Greedy selects through solve are those
\* it selects on the list with the forbidden positions physically removed and
\* no forbidden set given.
C28_GreedyForbiddenRecheck ==
    (strategy = "greedy" /\ pc = "returned" /\ OnlyForbidden(constraints)) =>
        \E o \in SolveOutcomes(RemovePositions(values, Get(constraints.forbidden_indices)),
                               target, mode, "greedy",
                               [constraints EXCEPT !.forbidden_indices = None],
                               scale_factor, has_ortools) :
            ~o.raised /\ o.result.selected_values = Res.selected_values

\* C29: when the progress callback raises, the list solve_batch returns still
\* holds exactly one BatchResult per submitted task_id: no task is reported
\* twice, and a task whose solve succeeded is not reported as failed.
C29_CallbackRaiseKeepsResults ==
    (batch_pc = "returned" /\ callback = "raises") =>
        /\ Len(results) = Len(tasks)
        /\ \A i \in DOMAIN tasks : CountOf(results, tasks[i].task_id) = 1
        /\ \A i \in DOMAIN tasks :
              (~future[i].raised /\ future[i].result.result.success) =>
                  \A k \in DOMAIN results :
                      results[k].task_id = tasks[i].task_id =>
                          results[k].result.solver_status # "TASK_FAILED"

\* The memory tier and the access times of the ResultCache.
MemoryKeys == DOMAIN result_cache.memory_cache
TimedKeys == DOMAIN result_cache.access_times

\* A put has just been made into a full memory tier.
PutIntoFullTier ==
    /\ cache_op.op = "put"
    /\ Cardinality(DOMAIN cache_op.before.memory_cache) >= cache_op.before.max_size

\* C25: after any sequence of get, put and clear executed one at a time on a
\* ResultCache with max_size >= 1, the memory tier holds at most max_size
\* entries, memory_cache and access_times have the same key set, and a put
\* that inserts into a full memory tier evicts the one entry whose most recent
\* access (memory hit in get, or insertion) is the oldest.
C25_LruBounded ==
    /\ Cardinality(MemoryKeys) <= result_cache.max_size
    /\ MemoryKeys = TimedKeys
    /\ cache_op.error = ""
    /\ PutIntoFullTier =>
          /\ Len(cache_op.evicted) = 1
          /\ Some(cache_op.evicted[1]) = cache_op.lru

\* C25's case: a put of a new key into a full tier of two entries evicted one
\* entry and kept the other, which had been accessed later.
C25_Witness ==
    /\ PutIntoFullTier /\ Len(cache_op.evicted) = 1
    /\ result_cache.max_size = 2
    /\ \E k \in MemoryKeys \cap DOMAIN cache_op.before.memory_cache :
          /\ k # cache_op.evicted[1]
          /\ k # Get(cache_op.key)
          /\ cache_op.before.access_times[k] >
                 cache_op.before.access_times[cache_op.evicted[1]]

\* C26: in shared-pool mode, however the dictionary operations of the worker
\* threads on the one ResultCache interleave, the memory tier never exceeds
\* max_size, memory_cache and access_times have the same key set once every
\* worker has finished, and no worker is left by an exception of the cache.
SharedWithinMaxSize == Cardinality(MemoryKeys) <= result_cache.max_size
SharedSameKeysAtEnd ==
    (\A w \in DOMAIN worker : worker[w].pc \in {"done", "raised", "failed"}) =>
        MemoryKeys = TimedKeys
SharedNoWorkerRaises == \A w \in DOMAIN worker : worker[w].pc # "raised"
C26_SharedCacheSynchronized ==
    SharedWithinMaxSize /\ SharedSameKeysAtEnd /\ SharedNoWorkerRaises

\* C30: a put for a key that is already in the memory tier only replaces that
\* key's entry: the tier holds the same keys after it as before, and every
\* other entry is the one it was, also when the tier is full.
C30_PutOfPresentKey ==
    (cache_op.op = "put" /\ Get(cache_op.key) \in DOMAIN cache_op.before.memory_cache) =>
        /\ \A i \in DOMAIN cache_op.evicted : Some(cache_op.evicted[i]) = cache_op.key
        /\ MemoryKeys = DOMAIN cache_op.before.memory_cache
        /\ \A k \in MemoryKeys \ cache_op.key :
              result_cache.memory_cache[k] = cache_op.before.memory_cache[k]

====
